---- MODULE Spec2Model ----
(***************************************************************************)
(* The thumbnail-loading subsystem of asphalt-turret's desktop client:     *)
(* the useThumbnail composable (apps/desktop/src/composables/              *)
(* useThumbnail.ts, the Image() variant, and its two earlier fetch()       *)
(* variants), with its module-level semaphore, ready cache, retry/backoff  *)
(* and cancellation by request token.                                      *)
(*                                                                         *)
(* Scheduling is the browser's event loop.  A handler (watch callback,     *)
(* retry(), onUnmounted, a timer callback, an image/fetch event) runs to   *)
(* its first await; the code after an await is a microtask, and microtasks *)
(* run in FIFO order (variable mq).  A timer callback and the settlement   *)
(* of a probe are tasks: they start only when the microtask queue is       *)
(* empty, and the await continuation of a settled probe is the only        *)
(* microtask it queues, so settlement and continuation are one step.  The  *)
(* watch callback, retry() and onUnmounted are called by the hosting       *)
(* component and may run at any point between two microtasks.              *)
(***************************************************************************)
EXTENDS Integers, Sequences, FiniteSets, TLC

\* ---------------------------------------------------------------- bounds

\* The semaphore's limit, scaled down (6 in the Image variant, 4 in the fetch variants).
MAX_CONCURRENT == 1
\* The retry cap, scaled down (6 in the Image variant, 8 in the fetch variants).
MAX_RETRIES == 1
\* Cap on a consumer's requestId, i.e. on its number of cancelPending() calls.
MaxRequestId == 2
\* Largest attempt index retryDelay is applied to in SpecDelay.
MaxDelayAttempt == 16

\* Progress steps of a running job.
MaxProgress == 2

\* Retries useQuery makes after a failed fetch (the library's default is 3).
MaxFetchRetries == 1

\* deleteSelected() calls of a useClips instance.
MaxDeletes == 2

\* saveKeyDebounced calls of a useSettingsDraft instance.
MaxDebounceCalls == 4

\* The useThumbnail instances (rows of the virtual scroller).
Consumers == {1, 2}
Urls == {"u1", "u2"}
Null == "null"
Variants == {"image", "fetch"}

\* ------------------------------------------------------- program constants

BASE_DELAY_MS_IMAGE == 1200
MAX_DELAY_MS_IMAGE == 15000
BASE_DELAY_MS_FETCH == 1500
MAX_DELAY_MS_FETCH == 30000
MAX_RETRIES_IMAGE == 6
MAX_RETRIES_FETCH == 8

VARIABLES
  variant,       \* which source variant runs: "image" or "fetch"
  status,        \* per consumer: "init" (not created), "mounted", "unmounted"
  srcRef,        \* per consumer: the target URL or Null
  thumbnailSrc,  \* per consumer: ref thumbnailSrc
  loading,       \* per consumer: ref loading
  failed,        \* per consumer: ref failed
  aborted,       \* per consumer: let aborted
  requestId,     \* per consumer: let requestId
  retryTimer,    \* per consumer: the pending setTimeout, or NoTimer
  controller,    \* per consumer: 0 (null) or the rid of the load() whose AbortController it holds
  active,        \* _active
  queue,         \* _queue: the waiting resume callbacks, as call ids <<c, rid>>
  readyUrls,     \* readyUrls / readyThumbnails
  calls,         \* the load() invocations suspended at an await
  mq,            \* the microtask queue: ids of the calls whose await has settled
  probesIssued,  \* observer, per consumer: probes issued since its last restart
  retried,       \* observer, per consumer: "no", or what the last retry() since the last
                 \* target change found: "failed" or "other"
  teardown,      \* observer, per consumer: what onUnmounted found ("none" before it ran):
                 \* "backoff" (a timer pending) or "other"
  dVariant, dAttempt, dDelay, dNext,  \* SpecDelay: retryDelay's input and results
  jobVariant,    \* useJobTracking: "early" (polls while pending/running) or "later"
                 \* (polls while queued/running or while nothing has been fetched)
  enabled,       \* useJobTracking: jobId !== null
  serverJob,     \* the job as the backend has it: [state, progress]
  data,          \* query.state.data: the last JobStatus fetched, NoData before
  fetchStatus,   \* query.state.fetchStatus: "fetching" or "idle"
  failureCount,  \* query.state.fetchFailureCount of the fetch in flight
  refetchTimer,  \* TRUE while the observer's refetch interval is armed
  clipsVariant,  \* useClips: "ref" (useClips.ts, load()) or "query" (useQuery version)
  serverClips,   \* the clip ids the backend has
  clips,         \* clips: the ids of the list last fetched
  selectedClips, \* selectedClips
  clipsLoading,  \* loading
  clipsError,    \* error !== null
  listReq,       \* the listRepoClips() request in flight, or NoListReq
  deleteCall,    \* the last deleteSelected() call: its position, the ids it sent
  deleteEpoch,   \* observer: delete requests completed so far
  clipsEpoch,    \* observer: deleteEpoch at the issue of the request that filled clips
  deletesStarted, \* observer: deleteSelected() calls so far
  sdConnected,   \* the cards the backend reports as connected
  sdCards,       \* sdCards: the connected cards of the list last fetched
  sdFiles,       \* sdFiles
  selectedSDFiles, \* selectedSDFiles
  sdLoading,     \* useSDFiles loading
  filesLoading,  \* filesLoading
  sdError,       \* useSDFiles error !== null
  currentVolumeUid, \* currentVolumeUid, "" for none
  cardsCall,     \* the loadSDCards() call: its position, and as observers the card
                 \* selected when the list arrived, the list, whether switchToCard ran
                 \* during the call, and how the last call ended
  fileReqs,      \* the listSDCardFiles() requests in flight
  importCall,    \* the importSelected() call: its position and what it sent
  timers,        \* useSettingsDraft timers: per key the timer id in the Map, 0 for none
  pendingTimers, \* the debounce timers set and neither fired nor cleared: [id, key, value]
  savesInFlight, \* the saveKey() calls of fired timers that have not settled
  sent,          \* observer, per key: the values handed to save(), in order
  lastValue,     \* observer, per key: the value of the last saveKeyDebounced call, 0 for none
  debounceCalls  \* observer: saveKeyDebounced calls so far (also the last timer id)

vars == <<variant, status, srcRef, thumbnailSrc, loading, failed, aborted, requestId,
          retryTimer, controller, active, queue, readyUrls, calls, mq, probesIssued, retried, teardown,
          dVariant, dAttempt, dDelay, dNext,
          jobVariant, enabled, serverJob, data, fetchStatus, failureCount, refetchTimer,
          clipsVariant, serverClips, clips, selectedClips, clipsLoading, clipsError, listReq,
          deleteCall, deleteEpoch, clipsEpoch, deletesStarted,
          sdConnected, sdCards, sdFiles, selectedSDFiles, sdLoading, filesLoading, sdError,
          currentVolumeUid, cardsCall, fileReqs, importCall,
          timers, pendingTimers, savesInFlight, sent, lastValue, debounceCalls>>

mainVars == <<variant, status, srcRef, thumbnailSrc, loading, failed, aborted, requestId,
              retryTimer, controller, active, queue, readyUrls, calls, mq, probesIssued,
              retried, teardown>>

delayVars == <<dVariant, dAttempt, dDelay, dNext>>

jobVars == <<jobVariant, enabled, serverJob, data, fetchStatus, failureCount, refetchTimer>>

clipsVars == <<clipsVariant, serverClips, clips, selectedClips, clipsLoading, clipsError,
               listReq, deleteCall, deleteEpoch, clipsEpoch, deletesStarted>>

sdVars == <<sdConnected, sdCards, sdFiles, selectedSDFiles, sdLoading, filesLoading, sdError,
            currentVolumeUid, cardsCall, fileReqs, importCall>>

settingsVars == <<timers, pendingTimers, savesInFlight, sent, lastValue, debounceCalls>>

\* What the thumbnail actions leave alone.
auxVars == <<delayVars, jobVars, clipsVars, sdVars, settingsVars>>

\* What the retryDelay, useJobTracking, useClips, useSDFiles and
\* useSettingsDraft actions leave alone.
notDelayVars == <<mainVars, jobVars, clipsVars, sdVars, settingsVars>>

notJobVars == <<mainVars, delayVars, clipsVars, sdVars, settingsVars>>

notClipsVars == <<mainVars, delayVars, jobVars, sdVars, settingsVars>>

notSDVars == <<mainVars, delayVars, jobVars, clipsVars, settingsVars>>

notSettingsVars == <<mainVars, delayVars, jobVars, clipsVars, sdVars>>

\* The settings saved through saveKeyDebounced.
SettingKeys == {"thumbnail_width", "thumbnail_height"}

\* useSettingsDraft(): const timers = new Map(), nothing scheduled or sent.
SettingsIdle ==
  /\ timers = [k \in SettingKeys |-> 0]
  /\ pendingTimers = {}
  /\ savesInFlight = {}
  /\ sent = [k \in SettingKeys |-> <<>>]
  /\ lastValue = [k \in SettingKeys |-> 0]
  /\ debounceCalls = 0

\* No loadSDCards() call yet.
NoCardsCall == [pc |-> "idle", prev |-> "", switched |-> FALSE, result |-> "none"]

\* No importSelected() call yet.
NoImportCall == [pc |-> "idle", uid |-> "", ids |-> {}]

\* useSDFiles() not in use.
SDIdle ==
  /\ sdConnected = {}
  /\ sdCards = {}
  /\ sdFiles = {}
  /\ selectedSDFiles = {}
  /\ sdLoading = FALSE
  /\ filesLoading = FALSE
  /\ sdError = FALSE
  /\ currentVolumeUid = ""
  /\ cardsCall = NoCardsCall
  /\ fileReqs = {}
  /\ importCall = NoImportCall

\* No listRepoClips() request in flight.
NoListReq == [active |-> FALSE, epoch |-> 0, handled |-> FALSE, snap |-> {}]

\* No deleteSelected() call yet.
NoDeleteCall == [pc |-> "none", ids |-> {}]

\* useClips() not in use.
ClipsIdle ==
  /\ clipsVariant = "ref"
  /\ serverClips = {}
  /\ clips = {}
  /\ selectedClips = {}
  /\ clipsLoading = FALSE
  /\ clipsError = FALSE
  /\ listReq = NoListReq
  /\ deleteCall = NoDeleteCall
  /\ deleteEpoch = 0
  /\ clipsEpoch = 0
  /\ deletesStarted = 0

Undefined == "undefined"

\* query.state.data before the first successful fetch.
NoData == [state |-> Undefined, progress |-> 0]

\* useJobTracking(null): the query is disabled and never fetches.
JobIdle ==
  /\ jobVariant = "early"
  /\ enabled = FALSE
  /\ serverJob = [state |-> "pending", progress |-> 0]
  /\ data = NoData
  /\ fetchStatus = "idle"
  /\ failureCount = 0
  /\ refetchTimer = FALSE

NoTimer == [src |-> Null, attempt |-> 0 - 1, rid |-> 0, delay |-> 0]

\* ----------------------------------------------------------- pure helpers

RECURSIVE Pow2(_)
Pow2(n) == IF n = 0 THEN 1 ELSE 2 * Pow2(n - 1)

Min(a, b) == IF a < b THEN a ELSE b

Max(a, b) == IF a > b THEN a ELSE b

BaseDelay(v) == IF v = "image" THEN BASE_DELAY_MS_IMAGE ELSE BASE_DELAY_MS_FETCH

MaxDelay(v) == IF v = "image" THEN MAX_DELAY_MS_IMAGE ELSE MAX_DELAY_MS_FETCH

SourceMaxRetries(v) == IF v = "image" THEN MAX_RETRIES_IMAGE ELSE MAX_RETRIES_FETCH

\* retryDelay(attempt): Math.min(BASE_DELAY_MS * 2 ** attempt, MAX_DELAY_MS)
retryDelay_nocap(v, attempt) == BaseDelay(v) * Pow2(attempt)

retryDelay(v, attempt) == Min(BaseDelay(v) * Pow2(attempt), MaxDelay(v))

\* ---------------------------------------------------------------- semaphore

Id(call) == <<call.c, call.rid>>

CallOf(cs, id) == CHOOSE x \in cs : Id(x) = id

HasCall(cs, id) == \E x \in cs : Id(x) = id

\* acquireSemaphore: if (_active < MAX_CONCURRENT)
CanAcquire_off_by_one(a) == a <= MAX_CONCURRENT

CanAcquire(a) == a < MAX_CONCURRENT

\* releaseSemaphore: _active = Math.max(0, _active - 1)
ReleasedActive(a) == Max(0, a - 1)

\* releaseSemaphore: const next = _queue.shift()
DequeueNext_lifo(q) == Len(q)

DequeueNext(q) == 1

\* the queued closure () => { _active++; resolve() }
WakeActive_no_increment(a) == a

WakeActive(a) == a + 1

Without(q, i) == [j \in 1..(Len(q) - 1) |-> IF j < i THEN q[j] ELSE q[j + 1]]

\* The semaphore and scheduler part of the state, threaded through a handler.
Sem(cs, q, a, m) == [calls |-> cs, queue |-> q, active |-> a, mq |-> m]

\* acquireSemaphore() as called by load() for the invocation `call`: the slot is
\* taken at once and the await continuation queued, or the resume callback is pushed.
acquireSemaphore(S, call) ==
  IF CanAcquire(S.active)
  THEN Sem(S.calls \cup {[call EXCEPT !.pc = "granted", !.via = "direct"]},
           S.queue, S.active + 1, Append(S.mq, Id(call)))
  ELSE Sem(S.calls \cup {[call EXCEPT !.pc = "queued", !.via = "queue"]},
           Append(S.queue, Id(call)), S.active, S.mq)

\* releaseSemaphore(): decrement, then wake the next waiter, whose closure
\* increments _active and resolves its promise (continuation queued as a microtask).
releaseSemaphore(S) ==
  LET a1 == ReleasedActive(S.active) IN
  IF S.queue = <<>>
  THEN [S EXCEPT !.active = a1]
  ELSE LET i == DequeueNext(S.queue)
           next == S.queue[i]
       IN Sem({IF Id(x) = next THEN [x EXCEPT !.pc = "granted"] ELSE x : x \in S.calls},
              Without(S.queue, i), WakeActive(a1), Append(S.mq, next))

\* ------------------------------------------------------------- composable

\* load(): if (aborted || rid !== requestId)
IsStale_inverted(ab, rid, reqId) == ab \/ rid = reqId

IsStale(ab, rid, reqId) == ab \/ rid # reqId

\* load(): if (readyUrls.has(src))
CacheHit_never(src, ready) == FALSE

CacheHit(src, ready) == src \in ready

\* load() catch / 202 branch: attempt < MAX_RETRIES
RetriesLeft_one_more(attempt) == attempt <= MAX_RETRIES

RetriesLeft(attempt) == attempt < MAX_RETRIES

\* The probe held by the consumer's AbortController, if it is still in flight.
InFlight(cs, c) == {x \in cs : x.c = c /\ x.rid = controller[c] /\ x.pc = "probing"}

\* cancelPending(): controller?.abort() rejects the in-flight probe with an
\* AbortError (the catch continuation becomes a microtask).
AbortedCalls_no_abort(cs, c) == cs

AbortedCalls(cs, c) ==
  {IF x \in InFlight(cs, c) THEN [x EXCEPT !.pc = "aborted"] ELSE x : x \in cs}

AbortedMq(m, cs, c) ==
  IF InFlight(cs, c) = {} THEN m ELSE Append(m, <<c, controller[c]>>)

\* cancelPending(): if (retryTimer !== null) { clearTimeout(retryTimer); retryTimer = null }
ClearedTimer_kept(t) == t

ClearedTimer(t) == NoTimer

\* The semaphore/scheduler state after cancelPending() of consumer c.
cancelPending(c) == Sem(AbortedCalls(calls, c), queue, active, AbortedMq(mq, calls, c))

\* watch callback / retry(): thumbnailSrc.value = null
ResetThumbnail_kept(cur) == cur

ResetThumbnail(cur) == Null

\* watch callback / retry(): failed.value = false
ResetFailed_kept(cur) == cur

ResetFailed(cur) == FALSE

NewCall(c, src, attempt, rid) ==
  [c |-> c, rid |-> rid, src |-> src, attempt |-> attempt, pc |-> "new", via |-> "direct"]

\* The synchronous part of load(src, 0) as the watch callback and retry() call it,
\* after cancelPending() and the resets (aborted = false, thumbnailSrc = null,
\* failed = false); newSrc = Null is the watch callback's else branch.
Restart(c, newSrc) ==
  LET S1 == cancelPending(c)
      rid == requestId[c] + 1
      stale == IsStale(FALSE, rid, rid)
      hit == newSrc # Null /\ ~stale /\ CacheHit(newSrc, readyUrls)
      S2 == IF newSrc = Null \/ stale \/ hit THEN S1
            ELSE acquireSemaphore(S1, NewCall(c, newSrc, 0, rid))
  IN /\ requestId' = [requestId EXCEPT ![c] = rid]
     /\ aborted' = [aborted EXCEPT ![c] = FALSE]
     /\ controller' = [controller EXCEPT ![c] = 0]
     /\ retryTimer' = [retryTimer EXCEPT ![c] = ClearedTimer(retryTimer[c])]
     /\ failed' = [failed EXCEPT ![c] = ResetFailed(@)]
     /\ thumbnailSrc' = [thumbnailSrc EXCEPT ![c] = IF hit THEN newSrc ELSE ResetThumbnail(@)]
     /\ loading' = [loading EXCEPT ![c] = IF newSrc = Null THEN FALSE
                                           ELSE IF stale THEN @ ELSE ~hit]
     /\ probesIssued' = [probesIssued EXCEPT ![c] = 0]
     /\ calls' = S2.calls
     /\ queue' = S2.queue
     /\ active' = S2.active
     /\ mq' = S2.mq
     /\ UNCHANGED <<variant, readyUrls, teardown>>

\* useThumbnail(srcRef): the refs are created and watch(..., {immediate: true})
\* runs its callback once with the initial value.
Mount(c, src) ==
  /\ status[c] = "init"
  /\ status' = [status EXCEPT ![c] = "mounted"]
  /\ srcRef' = [srcRef EXCEPT ![c] = src]
  /\ Restart(c, src)
  /\ UNCHANGED <<retried, auxVars>>

\* watch(srcRef, ...): the callback runs when the value changed.
SrcChange(c, src) ==
  /\ status[c] = "mounted"
  /\ src # srcRef[c]
  /\ requestId[c] < MaxRequestId
  /\ srcRef' = [srcRef EXCEPT ![c] = src]
  /\ Restart(c, src)
  /\ retried' = [retried EXCEPT ![c] = "no"]
  /\ UNCHANGED <<status, auxVars>>

\* retry(): a no-op without a target (if (!src) return).
Retry(c) ==
  /\ status[c] = "mounted"
  /\ srcRef[c] # Null
  /\ requestId[c] < MaxRequestId
  /\ Restart(c, srcRef[c])
  /\ retried' = [retried EXCEPT ![c] = IF failed[c] THEN "failed" ELSE "other"]
  /\ UNCHANGED <<status, srcRef, auxVars>>

\* onUnmounted(() => { cancelPending() })
Unmount(c) ==
  LET S1 == cancelPending(c) IN
  /\ status[c] = "mounted"
  /\ requestId[c] < MaxRequestId
  /\ status' = [status EXCEPT ![c] = "unmounted"]
  /\ aborted' = [aborted EXCEPT ![c] = TRUE]
  /\ requestId' = [requestId EXCEPT ![c] = requestId[c] + 1]
  /\ controller' = [controller EXCEPT ![c] = 0]
  /\ retryTimer' = [retryTimer EXCEPT ![c] = ClearedTimer(retryTimer[c])]
  /\ calls' = S1.calls
  /\ mq' = S1.mq
  /\ teardown' = [teardown EXCEPT ![c] = IF retryTimer[c] # NoTimer THEN "backoff" ELSE "other"]
  /\ UNCHANGED <<variant, srcRef, thumbnailSrc, loading, failed, active, queue,
                 readyUrls, probesIssued, retried, auxVars>>

\* The callback of setTimeout: retryTimer = null; load(src, attempt + 1, rid).
\* A timer callback is a task: it starts with the microtask queue empty.
TimerFire(c) ==
  LET t == retryTimer[c]
      stale == IsStale(aborted[c], t.rid, requestId[c])
      hit == CacheHit(t.src, readyUrls)
      S0 == Sem(calls, queue, active, mq)
      S1 == IF stale \/ hit THEN S0
            ELSE acquireSemaphore(S0, NewCall(c, t.src, t.attempt + 1, t.rid))
  IN /\ t # NoTimer
     /\ mq = <<>>
     /\ retryTimer' = [retryTimer EXCEPT ![c] = NoTimer]
     /\ thumbnailSrc' = [thumbnailSrc EXCEPT ![c] = IF ~stale /\ hit THEN t.src ELSE @]
     /\ loading' = [loading EXCEPT ![c] = IF stale THEN @ ELSE ~hit]
     /\ calls' = S1.calls
     /\ queue' = S1.queue
     /\ active' = S1.active
     /\ mq' = S1.mq
     /\ UNCHANGED <<variant, status, srcRef, failed, aborted, requestId, controller,
                    readyUrls, probesIssued, retried, teardown, auxVars>>

\* load() after `await acquireSemaphore()`, superseded: releaseSemaphore(); return
StaleGrantRelease_missing(S) == S

StaleGrantRelease(S) == releaseSemaphore(S)

\* load() after `await acquireSemaphore()`: a superseded invocation gives the slot
\* back; the current one creates its AbortController and issues the probe.
AfterAcquire(call) ==
  LET c == call.c
      S0 == Sem(calls \ {call}, queue, active, Tail(mq))
  IN IF IsStale(aborted[c], call.rid, requestId[c])
     THEN LET S1 == StaleGrantRelease(S0)
          IN /\ calls' = S1.calls
             /\ queue' = S1.queue
             /\ active' = S1.active
             /\ mq' = S1.mq
             /\ UNCHANGED <<controller, probesIssued>>
     ELSE /\ calls' = (calls \ {call}) \cup {[call EXCEPT !.pc = "probing"]}
          /\ mq' = Tail(mq)
          /\ controller' = [controller EXCEPT ![c] = call.rid]
          /\ probesIssued' = [probesIssued EXCEPT ![c] = @ + 1]
          /\ UNCHANGED <<queue, active>>

\* load() catch (AbortError): the branch returns without touching `failed`.
AbortFailed_marks(cur) == TRUE

AbortFailed(cur) == cur

\* load() catch (AbortError): loading.value = false; return; finally releaseSemaphore().
\* The Image variant's catch block starts with controller = null.
AfterAbort(call) ==
  LET c == call.c
      S1 == releaseSemaphore(Sem(calls \ {call}, queue, active, Tail(mq)))
  IN /\ loading' = [loading EXCEPT ![c] = FALSE]
     /\ failed' = [failed EXCEPT ![c] = AbortFailed(@)]
     /\ controller' = [controller EXCEPT ![c] = IF variant = "image" THEN 0 ELSE @]
     /\ calls' = S1.calls
     /\ queue' = S1.queue
     /\ active' = S1.active
     /\ mq' = S1.mq

\* The first microtask runs: the continuation of a load() whose await settled.
RunMicrotask ==
  /\ mq # <<>>
  /\ LET call == CallOf(calls, Head(mq))
     IN \/ /\ call.pc = "granted"
           /\ AfterAcquire(call)
           /\ UNCHANGED <<loading, failed>>
        \/ /\ call.pc = "aborted"
           /\ AfterAbort(call)
           /\ UNCHANGED probesIssued
  /\ UNCHANGED <<variant, status, srcRef, thumbnailSrc, aborted, requestId,
                 retryTimer, readyUrls, retried, teardown, auxVars>>

\* How a probe can settle: Image() fires onload or onerror; fetch() resolves with
\* status 200, 202 or another status (404, 5xx), or rejects with a network error.
Outcomes(v) == IF v = "image" THEN {"ok", "error"}
               ELSE {"ok", "notready", "errstatus", "neterror"}

\* Outcomes handled by the catch block.
Thrown == {"error", "neterror"}

\* The branch load() takes once the probe has settled with `outcome`:
\* "ready", "retry" (a timer is set), "fail", or "noop" (superseded, plain return).
Settlement_status_blind(outcome, stale, attempt) ==
  IF outcome \in Thrown
  THEN (IF ~stale /\ RetriesLeft(attempt) THEN "retry" ELSE "fail")
  ELSE IF stale THEN "noop"
  ELSE IF outcome = "ok" THEN "ready"
  ELSE (IF RetriesLeft(attempt) THEN "retry" ELSE "fail")

Settlement(outcome, stale, attempt) ==
  IF outcome \in Thrown
  THEN (IF ~stale /\ RetriesLeft(attempt) THEN "retry" ELSE "fail")
  ELSE IF stale THEN "noop"
  ELSE IF outcome = "notready" THEN (IF RetriesLeft(attempt) THEN "retry" ELSE "fail")
  ELSE IF outcome = "ok" THEN "ready"
  ELSE "fail"

\* load() success path: readyUrls.add(src); no other branch touches the cache.
CacheAfter_also_on_fail(cache, kind, src) ==
  IF kind \in {"ready", "fail"} THEN cache \cup {src} ELSE cache

CacheAfter(cache, kind, src) == IF kind = "ready" THEN cache \cup {src} ELSE cache

\* load() finally: releaseSemaphore(), whatever branch was taken.
SettleRelease_not_on_retry(S, kind) == IF kind = "retry" THEN S ELSE releaseSemaphore(S)

SettleRelease(S, kind) == releaseSemaphore(S)

\* The probe of consumer c settles and load() runs to its end: try or catch,
\* then finally releaseSemaphore().  An event callback is a task (the microtask
\* queue is empty) and the continuation is the only microtask it queues.
ProbeSettle(c, outcome) ==
  /\ mq = <<>>
  /\ outcome \in Outcomes(variant)
  /\ \E call \in calls :
       /\ call.c = c
       /\ call.pc = "probing"
       /\ LET stale == IsStale(aborted[c], call.rid, requestId[c])
              kind == Settlement(outcome, stale, call.attempt)
              S1 == SettleRelease(Sem(calls \ {call}, queue, active, mq), kind)
          IN /\ controller' = [controller EXCEPT ![c] =
                                 IF variant = "fetch" /\ outcome = "neterror" THEN @ ELSE 0]
             /\ readyUrls' = CacheAfter(readyUrls, kind, call.src)
             /\ thumbnailSrc' = [thumbnailSrc EXCEPT ![c] = IF kind = "ready" THEN call.src ELSE @]
             /\ loading' = [loading EXCEPT ![c] = IF kind \in {"ready", "fail"} THEN FALSE ELSE @]
             /\ failed' = [failed EXCEPT ![c] = IF kind = "fail" THEN TRUE ELSE @]
             /\ retryTimer' = [retryTimer EXCEPT ![c] =
                                 IF kind = "retry"
                                 THEN [src |-> call.src, attempt |-> call.attempt,
                                       rid |-> call.rid,
                                       delay |-> retryDelay(variant, call.attempt)]
                                 ELSE @]
             /\ calls' = S1.calls
             /\ queue' = S1.queue
             /\ active' = S1.active
             /\ mq' = S1.mq
  /\ UNCHANGED <<variant, status, srcRef, aborted, requestId, probesIssued, retried,
                 teardown, auxVars>>

\* ------------------------------------------------------------ specification

InitMain ==
  /\ status = [c \in Consumers |-> "init"]
  /\ srcRef = [c \in Consumers |-> Null]
  /\ thumbnailSrc = [c \in Consumers |-> Null]
  /\ loading = [c \in Consumers |-> FALSE]
  /\ failed = [c \in Consumers |-> FALSE]
  /\ aborted = [c \in Consumers |-> FALSE]
  /\ requestId = [c \in Consumers |-> 0]
  /\ retryTimer = [c \in Consumers |-> NoTimer]
  /\ controller = [c \in Consumers |-> 0]
  /\ active = 0
  /\ queue = <<>>
  /\ readyUrls = {}
  /\ calls = {}
  /\ mq = <<>>
  /\ probesIssued = [c \in Consumers |-> 0]
  /\ retried = [c \in Consumers |-> "no"]
  /\ teardown = [c \in Consumers |-> "none"]

Init ==
  /\ variant \in Variants
  /\ InitMain
  /\ dVariant = variant
  /\ dAttempt = 0
  /\ dDelay = 0 - 1
  /\ dNext = 0 - 1
  /\ JobIdle
  /\ ClipsIdle
  /\ SDIdle
  /\ SettingsIdle

Next ==
  \/ \E c \in Consumers, src \in Urls \cup {Null} : Mount(c, src)
  \/ \E c \in Consumers, src \in Urls \cup {Null} : SrcChange(c, src)
  \/ \E c \in Consumers : Retry(c)
  \/ \E c \in Consumers : Unmount(c)
  \/ \E c \in Consumers : TimerFire(c)
  \/ RunMicrotask
  \/ \E c \in Consumers, outcome \in {"ok", "error", "notready", "errstatus", "neterror"} :
       ProbeSettle(c, outcome)

Spec == Init /\ [][Next]_vars

\* The event loop runs every queued microtask; every issued probe settles
\* (onload/onerror, or the fetch promise settling) and every timer fires.
\* Target changes, retry() and unmount are the environment's: no fairness.
Fairness ==
  /\ WF_vars(RunMicrotask)
  /\ \A c \in Consumers :
       /\ WF_vars(\E outcome \in Outcomes(variant) : ProbeSettle(c, outcome))
       /\ WF_vars(TimerFire(c))

SpecLive == Spec /\ Fairness

\* ---------------------------------------------------------------- retryDelay

\* retryDelay applied to an attempt index, then to the following one.
InitDelay ==
  /\ InitMain
  /\ dVariant \in Variants
  /\ variant = dVariant
  /\ dAttempt \in 0..MaxDelayAttempt
  /\ dDelay = 0 - 1
  /\ dNext = 0 - 1
  /\ JobIdle
  /\ ClipsIdle
  /\ SDIdle
  /\ SettingsIdle

ComputeDelay ==
  /\ dDelay = 0 - 1
  /\ dDelay' = retryDelay(dVariant, dAttempt)
  /\ UNCHANGED <<dVariant, dAttempt, dNext, notDelayVars>>

ComputeNextDelay ==
  /\ dDelay # 0 - 1
  /\ dNext = 0 - 1
  /\ dNext' = retryDelay(dVariant, dAttempt + 1)
  /\ UNCHANGED <<dVariant, dAttempt, dDelay, notDelayVars>>

NextDelay == ComputeDelay \/ ComputeNextDelay

SpecDelay == InitDelay /\ [][NextDelay]_vars

\* ------------------------------------------------------------ useJobTracking

JobVariants == {"early", "later"}

\* refetchInterval: the states in which the callback returns 1000.  The early
\* version names the waiting state PENDING, the later one QUEUED.
ActiveStatesEarly == {"pending", "running"}

ActiveStatesLater == {"queued", "running"}

ActiveStates(v) == IF v = "early" THEN ActiveStatesEarly ELSE ActiveStatesLater

\* JobState.COMPLETED, JobState.FAILED
TerminalStates == {"completed", "failed"}

\* The state a job is created in.
WaitingState(v) == IF v = "early" THEN "pending" ELSE "queued"

\* refetchInterval returns 1000 ...
POLL_MS == 1000

\* ... or false
NoInterval == 0

\* refetchInterval(query), with state = query.state.data?.state
refetchInterval(v, state) ==
  IF state = Undefined THEN (IF v = "later" THEN POLL_MS ELSE NoInterval)
  ELSE IF state \in ActiveStates(v) THEN POLL_MS
  ELSE NoInterval

\* useQuery re-evaluates refetchInterval on every update of the query and arms
\* the observer's interval iff it returned a number and the query is enabled.
Armed(v, state) == enabled /\ refetchInterval(v, state) # NoInterval

\* State after useJobTracking(jobId) has run in setup: an enabled query starts
\* its first fetch on mount.
InitJob ==
  /\ InitMain
  /\ variant = "image"
  /\ dVariant = variant
  /\ dAttempt = 0
  /\ dDelay = 0 - 1
  /\ dNext = 0 - 1
  /\ ClipsIdle
  /\ SDIdle
  /\ SettingsIdle
  /\ jobVariant \in JobVariants
  /\ enabled \in BOOLEAN
  /\ serverJob = [state |-> WaitingState(jobVariant), progress |-> 0]
  /\ data = NoData
  /\ fetchStatus = (IF enabled THEN "fetching" ELSE "idle")
  /\ failureCount = 0
  /\ refetchTimer = Armed(jobVariant, Undefined)

\* The backend works on the job (environment): waiting -> running -> completed
\* or failed, progress counting up while it runs.
ServerAdvance ==
  /\ \/ /\ serverJob.state = WaitingState(jobVariant)
        /\ serverJob' = [serverJob EXCEPT !.state = "running"]
     \/ /\ serverJob.state = "running"
        /\ serverJob.progress < MaxProgress
        /\ serverJob' = [serverJob EXCEPT !.progress = @ + 1]
     \/ /\ serverJob.state = "running"
        /\ serverJob' = [serverJob EXCEPT !.state = "completed"]
     \/ /\ serverJob.state \in ActiveStates(jobVariant)
        /\ serverJob' = [serverJob EXCEPT !.state = "failed"]
  /\ UNCHANGED <<jobVariant, enabled, data, fetchStatus, failureCount, refetchTimer,
                 notJobVars>>

\* getJobStatus resolves with the job as the backend has it now.
FetchSucceed ==
  /\ fetchStatus = "fetching"
  /\ data' = serverJob
  /\ fetchStatus' = "idle"
  /\ failureCount' = 0
  /\ refetchTimer' = Armed(jobVariant, serverJob.state)
  /\ UNCHANGED <<jobVariant, enabled, serverJob, notJobVars>>

\* getJobStatus throws (network error or !response.ok).  useQuery retries a
\* failed fetch up to its retry limit, then leaves the query in error with the
\* data it had.
FetchFail ==
  /\ fetchStatus = "fetching"
  /\ IF failureCount < MaxFetchRetries
     THEN /\ failureCount' = failureCount + 1
          /\ fetchStatus' = "fetching"
     ELSE /\ failureCount' = failureCount
          /\ fetchStatus' = "idle"
  /\ refetchTimer' = Armed(jobVariant, data.state)
  /\ UNCHANGED <<jobVariant, enabled, serverJob, data, notJobVars>>

\* The refetch interval elapses: the observer fetches again (a tick during a
\* fetch in flight joins that fetch and changes nothing).
RefetchTick ==
  /\ refetchTimer
  /\ fetchStatus = "idle"
  /\ fetchStatus' = "fetching"
  /\ failureCount' = 0
  /\ refetchTimer' = Armed(jobVariant, data.state)
  /\ UNCHANGED <<jobVariant, enabled, serverJob, data, notJobVars>>

NextJob == ServerAdvance \/ FetchSucceed \/ FetchFail \/ RefetchTick

\* An armed interval fires, a request in flight settles, and a backend that is
\* asked again and again answers at some point.
FairnessJob ==
  /\ WF_vars(RefetchTick)
  /\ WF_vars(FetchSucceed \/ FetchFail)
  /\ SF_vars(FetchSucceed)

SpecJob == InitJob /\ [][NextJob]_vars /\ FairnessJob

\* ------------------------------------------------------------------ useClips

ClipsVariants == {"ref", "query"}

ClipIds == {1, 2}

\* A listRepoClips() request just sent; `epoch` records how many deletes had
\* completed when it was issued.
NewListReq(epoch) == [active |-> TRUE, epoch |-> epoch, handled |-> FALSE, snap |-> {}]

\* deleteSelected: if (selectedClips.value.length === 0) throw
NothingSelected(sel) == sel = {}

\* deleteSelected: selectedClips.value = [] is reached only when deleteClips resolved.
SelectionAfterDelete_always_cleared(sel, ok) == {}

SelectionAfterDelete(sel, ok) == IF ok THEN {} ELSE sel

\* State after useClips() has run in setup.  The useQuery version fetches the
\* list on first use; the ref version waits for load().
InitClips ==
  /\ InitMain
  /\ variant = "image"
  /\ dVariant = variant
  /\ dAttempt = 0
  /\ dDelay = 0 - 1
  /\ dNext = 0 - 1
  /\ JobIdle
  /\ SDIdle
  /\ SettingsIdle
  /\ clipsVariant \in ClipsVariants
  /\ serverClips = ClipIds
  /\ clips = {}
  /\ selectedClips = {}
  /\ clipsLoading = (clipsVariant = "query")
  /\ clipsError = FALSE
  /\ listReq = (IF clipsVariant = "query" THEN NewListReq(0) ELSE NoListReq)
  /\ deleteCall = NoDeleteCall
  /\ deleteEpoch = 0
  /\ clipsEpoch = 0
  /\ deletesStarted = 0

DeleteInFlight == deleteCall.pc \in {"deleting", "reloading"}

\* setSelection(clips), with clips taken from the list shown.
setSelection(sel) ==
  /\ sel # {}
  /\ sel \subseteq clips
  /\ sel # selectedClips
  /\ selectedClips' = sel
  /\ UNCHANGED <<clipsVariant, serverClips, clips, clipsLoading, clipsError, listReq,
                 deleteCall, deleteEpoch, clipsEpoch, deletesStarted, notClipsVars>>

clearSelection ==
  /\ selectedClips # {}
  /\ selectedClips' = {}
  /\ UNCHANGED <<clipsVariant, serverClips, clips, clipsLoading, clipsError, listReq,
                 deleteCall, deleteEpoch, clipsEpoch, deletesStarted, notClipsVars>>

\* load() called from outside (onMounted, refresh): with loading set it
\* returns at once, which changes nothing.
load ==
  /\ clipsVariant = "ref"
  /\ ~clipsLoading
  /\ clipsLoading' = TRUE
  /\ clipsError' = FALSE
  /\ listReq' = NewListReq(deleteEpoch)
  /\ UNCHANGED <<clipsVariant, serverClips, clips, selectedClips, deleteCall, deleteEpoch,
                 clipsEpoch, deletesStarted, notClipsVars>>

\* reload(): invalidateQueries cancels a fetch in flight and fetches again.
reload ==
  /\ clipsVariant = "query"
  /\ listReq' = NewListReq(deleteEpoch)
  /\ listReq' # listReq
  /\ UNCHANGED <<clipsVariant, serverClips, clips, selectedClips, clipsLoading, clipsError,
                 deleteCall, deleteEpoch, clipsEpoch, deletesStarted, notClipsVars>>

\* The backend reads the clip table for the list request in flight.
ServerList ==
  /\ listReq.active
  /\ ~listReq.handled
  /\ listReq' = [listReq EXCEPT !.handled = TRUE, !.snap = serverClips]
  /\ UNCHANGED <<clipsVariant, serverClips, clips, selectedClips, clipsLoading, clipsError,
                 deleteCall, deleteEpoch, clipsEpoch, deletesStarted, notClipsVars>>

\* listRepoClips() settles: load()'s try/catch/finally, and the rest of a
\* deleteSelected() that awaits this load().
ListSettle(ok) ==
  /\ listReq.active
  /\ ok => listReq.handled
  /\ clips' = (IF ok THEN listReq.snap ELSE clips)
  /\ clipsEpoch' = (IF ok THEN listReq.epoch ELSE clipsEpoch)
  /\ clipsError' = ~ok
  /\ clipsLoading' = FALSE
  /\ listReq' = NoListReq
  /\ deleteCall' = [deleteCall EXCEPT !.pc = IF @ = "reloading" THEN "resolved" ELSE @]
  /\ UNCHANGED <<clipsVariant, serverClips, selectedClips, deleteEpoch, deletesStarted,
                 notClipsVars>>

\* deleteSelected() up to its first await.
deleteSelected ==
  /\ ~DeleteInFlight
  /\ deletesStarted < MaxDeletes
  /\ deletesStarted' = deletesStarted + 1
  /\ deleteCall' = (IF NothingSelected(selectedClips)
                    THEN [pc |-> "threw", ids |-> {}]
                    ELSE [pc |-> "deleting", ids |-> selectedClips])
  /\ UNCHANGED <<clipsVariant, serverClips, clips, selectedClips, clipsLoading, clipsError,
                 listReq, deleteEpoch, clipsEpoch, notClipsVars>>

\* deleteClips() settles.  Resolved: the selection is emptied and the list is
\* reloaded, by `await load()` (ref version; load() returns at once while
\* loading is set) or by invalidateQueries, which is not awaited.  Rejected:
\* the error leaves deleteSelected().
DeleteSettle(ok) ==
  /\ deleteCall.pc = "deleting"
  /\ selectedClips' = SelectionAfterDelete(selectedClips, ok)
  /\ serverClips' = (IF ok THEN serverClips \ deleteCall.ids ELSE serverClips)
  /\ deleteEpoch' = (IF ok THEN deleteEpoch + 1 ELSE deleteEpoch)
  /\ IF ~ok
     THEN /\ deleteCall' = [deleteCall EXCEPT !.pc = "rejected"]
          /\ UNCHANGED <<listReq, clipsLoading, clipsError>>
     ELSE IF clipsVariant = "query"
     THEN /\ deleteCall' = [deleteCall EXCEPT !.pc = "resolved"]
          /\ listReq' = NewListReq(deleteEpoch')
          /\ UNCHANGED <<clipsLoading, clipsError>>
     ELSE IF clipsLoading
     THEN /\ deleteCall' = [deleteCall EXCEPT !.pc = "resolved"]
          /\ UNCHANGED <<listReq, clipsLoading, clipsError>>
     ELSE /\ deleteCall' = [deleteCall EXCEPT !.pc = "reloading"]
          /\ listReq' = NewListReq(deleteEpoch')
          /\ clipsLoading' = TRUE
          /\ clipsError' = FALSE
  /\ UNCHANGED <<clipsVariant, clips, clipsEpoch, deletesStarted, notClipsVars>>

NextClips ==
  \/ \E sel \in SUBSET ClipIds : setSelection(sel)
  \/ clearSelection
  \/ load
  \/ reload
  \/ ServerList
  \/ \E ok \in BOOLEAN : ListSettle(ok)
  \/ deleteSelected
  \/ \E ok \in BOOLEAN : DeleteSettle(ok)

SpecClips == InitClips /\ [][NextClips]_vars

\* ---------------------------------------------------------------- useSDFiles

Cards == {"A", "B"}

\* The order in which the backend lists the cards.
CardOrder == <<"A", "B">>

\* The files on each card.
FilesOf(card) == IF card = "A" THEN {"A1"} ELSE IF card = "B" THEN {"B1"} ELSE {}

CardOf(file) == CHOOSE card \in Cards : file \in FilesOf(card)

\* connectedCards[0]
FirstConnected_last(connected) ==
  CardOrder[CHOOSE i \in 1..Len(CardOrder) :
              /\ CardOrder[i] \in connected
              /\ \A j \in 1..Len(CardOrder) : CardOrder[j] \in connected => j <= i]

FirstConnected(connected) ==
  CardOrder[CHOOSE i \in 1..Len(CardOrder) :
              /\ CardOrder[i] \in connected
              /\ \A j \in 1..Len(CardOrder) : CardOrder[j] \in connected => i <= j]

\* loadSDCards, after the list arrived: the card to show, "" for none.
SelectCard(cur, connected) ==
  IF cur = ""
  THEN (IF connected # {} THEN FirstConnected(connected) ELSE "")
  ELSE IF cur \in connected THEN cur
  ELSE IF connected # {} THEN FirstConnected(connected)
  ELSE ""

\* switchToCard: clearSelection()
SwitchSelection_kept(sel) == sel

SwitchSelection(sel) == {}

\* A listSDCardFiles(card) request just sent by loadFilesForCard, for
\* loadSDCards ("cards") or for another caller.
NewFileReq(card, owner) == [card |-> card, owner |-> owner]

\* At most one request per card and caller is kept in flight.
CanRequest(card, owner) == NewFileReq(card, owner) \notin fileReqs

\* State after useSDFiles() has run in setup.
InitSD ==
  /\ InitMain
  /\ variant = "image"
  /\ dVariant = variant
  /\ dAttempt = 0
  /\ dDelay = 0 - 1
  /\ dNext = 0 - 1
  /\ JobIdle
  /\ ClipsIdle
  /\ SettingsIdle
  /\ sdConnected \in SUBSET Cards
  /\ sdCards = {}
  /\ sdFiles = {}
  /\ selectedSDFiles = {}
  /\ sdLoading = FALSE
  /\ filesLoading = FALSE
  /\ sdError = FALSE
  /\ currentVolumeUid = ""
  /\ cardsCall = NoCardsCall
  /\ fileReqs = {}
  /\ importCall = NoImportCall

\* A card is plugged in or pulled (environment).
CardToggle(card) ==
  /\ sdConnected' = (IF card \in sdConnected THEN sdConnected \ {card}
                     ELSE sdConnected \cup {card})
  /\ UNCHANGED <<sdCards, sdFiles, selectedSDFiles, sdLoading, filesLoading, sdError,
                 currentVolumeUid, cardsCall, fileReqs, importCall, notSDVars>>

\* setSelection(files), with files taken from the list shown.
SDSetSelection(sel) ==
  /\ sel # {}
  /\ sel \subseteq sdFiles
  /\ sel # selectedSDFiles
  /\ selectedSDFiles' = sel
  /\ UNCHANGED <<sdConnected, sdCards, sdFiles, sdLoading, filesLoading, sdError,
                 currentVolumeUid, cardsCall, fileReqs, importCall, notSDVars>>

\* loadSDCards() up to await listSDCards(); with loading set it returns at once.
loadSDCards ==
  /\ ~sdLoading
  /\ sdLoading' = TRUE
  /\ sdError' = FALSE
  /\ cardsCall' = [cardsCall EXCEPT !.pc = "listing", !.switched = FALSE]
  /\ UNCHANGED <<sdConnected, sdCards, sdFiles, selectedSDFiles, filesLoading,
                 currentVolumeUid, fileReqs, importCall, notSDVars>>

\* listSDCards() settles: the try block up to `await loadFilesForCard(...)`, or
\* to its end when no card is connected; the catch block; finally.
CardsSettle(ok) ==
  /\ cardsCall.pc = "listing"
  /\ LET target == SelectCard(currentVolumeUid, sdConnected)
     IN IF ~ok
        THEN /\ sdError' = TRUE
             /\ currentVolumeUid' = ""
             /\ sdFiles' = {}
             /\ sdLoading' = FALSE
             /\ cardsCall' = [cardsCall EXCEPT !.pc = "idle", !.result = "error"]
             /\ UNCHANGED <<sdCards, filesLoading, fileReqs>>
        ELSE IF target = ""
        THEN /\ sdCards' = sdConnected
             /\ currentVolumeUid' = ""
             /\ sdFiles' = {}
             /\ sdLoading' = FALSE
             /\ cardsCall' = [cardsCall EXCEPT !.pc = "idle", !.result = "ok",
                                               !.prev = currentVolumeUid]
             /\ UNCHANGED <<sdError, filesLoading, fileReqs>>
        ELSE /\ CanRequest(target, "cards")
             /\ sdCards' = sdConnected
             /\ currentVolumeUid' = target
             /\ filesLoading' = TRUE
             /\ fileReqs' = fileReqs \cup {NewFileReq(target, "cards")}
             /\ cardsCall' = [cardsCall EXCEPT !.pc = "files",
                                               !.prev = currentVolumeUid]
             /\ UNCHANGED <<sdError, sdFiles, sdLoading>>
  /\ UNCHANGED <<sdConnected, selectedSDFiles, importCall, notSDVars>>

\* loadFilesForCard(currentVolumeUid) called from outside, up to its await.
loadFilesForCard ==
  /\ currentVolumeUid # ""
  /\ CanRequest(currentVolumeUid, "other")
  /\ filesLoading' = TRUE
  /\ fileReqs' = fileReqs \cup {NewFileReq(currentVolumeUid, "other")}
  /\ UNCHANGED <<sdConnected, sdCards, sdFiles, selectedSDFiles, sdLoading, sdError,
                 currentVolumeUid, cardsCall, importCall, notSDVars>>

\* switchToCard(volumeUid), for a card of the list shown, up to the await in
\* loadFilesForCard.
switchToCard(card) ==
  /\ card \in sdCards
  /\ card # currentVolumeUid
  /\ CanRequest(card, "other")
  /\ currentVolumeUid' = card
  /\ selectedSDFiles' = SwitchSelection(selectedSDFiles)
  /\ filesLoading' = TRUE
  /\ fileReqs' = fileReqs \cup {NewFileReq(card, "other")}
  /\ cardsCall' = [cardsCall EXCEPT !.switched = IF cardsCall.pc # "idle" THEN TRUE ELSE @]
  /\ UNCHANGED <<sdConnected, sdCards, sdFiles, sdLoading, sdError, importCall, notSDVars>>

\* listSDCardFiles() settles: loadFilesForCard's try/catch/finally, and the
\* rest of the loadSDCards() call that awaits it.
FilesSettle(r, ok) ==
  /\ r \in fileReqs
  /\ fileReqs' = fileReqs \ {r}
  /\ sdFiles' = (IF ok THEN FilesOf(r.card) ELSE {})
  /\ filesLoading' = FALSE
  /\ IF r.owner = "cards"
     THEN /\ sdLoading' = FALSE
          /\ cardsCall' = [cardsCall EXCEPT !.pc = "idle", !.result = "ok"]
     ELSE UNCHANGED <<sdLoading, cardsCall>>
  /\ UNCHANGED <<sdConnected, sdCards, selectedSDFiles, sdError, currentVolumeUid,
                 importCall, notSDVars>>

\* importSelected() up to await importSDFiles(); it throws with nothing
\* selected or no card.
importSelected ==
  /\ importCall.pc # "importing"
  /\ selectedSDFiles # {}
  /\ currentVolumeUid # ""
  /\ importCall' = [pc |-> "importing", uid |-> currentVolumeUid, ids |-> selectedSDFiles]
  /\ UNCHANGED <<sdConnected, sdCards, sdFiles, selectedSDFiles, sdLoading, filesLoading,
                 sdError, currentVolumeUid, cardsCall, fileReqs, notSDVars>>

\* importSDFiles() settles: on success the selection is emptied and
\* loadSDCards() is called.
ImportSettle(ok) ==
  /\ importCall.pc = "importing"
  /\ importCall' = NoImportCall
  /\ IF ok
     THEN /\ selectedSDFiles' = {}
          /\ IF sdLoading
             THEN UNCHANGED <<sdLoading, sdError, cardsCall>>
             ELSE /\ sdLoading' = TRUE
                  /\ sdError' = FALSE
                  /\ cardsCall' = [cardsCall EXCEPT !.pc = "listing", !.switched = FALSE]
     ELSE UNCHANGED <<selectedSDFiles, sdLoading, sdError, cardsCall>>
  /\ UNCHANGED <<sdConnected, sdCards, sdFiles, filesLoading, currentVolumeUid, fileReqs,
                 notSDVars>>

NextSD ==
  \/ \E card \in Cards : CardToggle(card)
  \/ \E sel \in SUBSET (FilesOf("A") \cup FilesOf("B")) : SDSetSelection(sel)
  \/ loadSDCards
  \/ \E ok \in BOOLEAN : CardsSettle(ok)
  \/ loadFilesForCard
  \/ \E card \in Cards : switchToCard(card)
  \/ \E r \in fileReqs, ok \in BOOLEAN : FilesSettle(r, ok)
  \/ importSelected
  \/ \E ok \in BOOLEAN : ImportSettle(ok)

SpecSD == InitSD /\ [][NextSD]_vars

\* ----------------------------------------------------------- useSettingsDraft

\* saveKeyDebounced: const existing = timers.get(key); if (existing)
\* window.clearTimeout(existing) -- a timer that already fired is not affected.
ClearedTimeout(pending, existing) == {t \in pending : t.id # existing}

\* The pending timer that fires next: all are set with the same delay, so the
\* oldest one.
Oldest(pending) == CHOOSE t \in pending : \A u \in pending : t.id <= u.id

InitSettings ==
  /\ InitMain
  /\ variant = "image"
  /\ dVariant = variant
  /\ dAttempt = 0
  /\ dDelay = 0 - 1
  /\ dNext = 0 - 1
  /\ JobIdle
  /\ ClipsIdle
  /\ SDIdle
  /\ timers = [k \in SettingKeys |-> 0]
  /\ pendingTimers = {}
  /\ savesInFlight = {}
  /\ sent = [k \in SettingKeys |-> <<>>]
  /\ lastValue = [k \in SettingKeys |-> 0]
  /\ debounceCalls = 0

\* saveKeyDebounced(key, value): each call passes a new value, named by the
\* call's number, which is also the id of the timer it sets.
saveKeyDebounced(key) ==
  /\ debounceCalls < MaxDebounceCalls
  /\ LET id == debounceCalls + 1
     IN /\ debounceCalls' = id
        /\ lastValue' = [lastValue EXCEPT ![key] = id]
        /\ pendingTimers' = ClearedTimeout(pendingTimers, timers[key])
                              \cup {[id |-> id, key |-> key, value |-> id]}
        /\ timers' = [timers EXCEPT ![key] = id]
  /\ UNCHANGED <<savesInFlight, sent, notSettingsVars>>

\* A debounce timer fires: the callback calls saveKey(key, value) and waits.
DebounceFire ==
  /\ pendingTimers # {}
  /\ LET t == Oldest(pendingTimers)
     IN /\ pendingTimers' = pendingTimers \ {t}
        /\ savesInFlight' = savesInFlight \cup {t}
        /\ sent' = [sent EXCEPT ![t.key] = Append(@, t.value)]
  /\ UNCHANGED <<timers, lastValue, debounceCalls, notSettingsVars>>

\* save() settles, resolved or rejected: finally timers.delete(key).
SaveSettle(t) ==
  /\ t \in savesInFlight
  /\ savesInFlight' = savesInFlight \ {t}
  /\ timers' = [timers EXCEPT ![t.key] = 0]
  /\ UNCHANGED <<pendingTimers, sent, lastValue, debounceCalls, notSettingsVars>>

NextSettings ==
  \/ \E key \in SettingKeys : saveKeyDebounced(key)
  \/ DebounceFire
  \/ \E t \in savesInFlight : SaveSettle(t)

\* Timers fire and save requests settle.
FairnessSettings ==
  /\ WF_vars(DebounceFire)
  /\ WF_vars(\E t \in savesInFlight : SaveSettle(t))

SpecSettings == InitSettings /\ [][NextSettings]_vars /\ FairnessSettings

\* -------------------------------------------------------------------- claims

\* The load() invocations that hold a slot: between the grant and releaseSemaphore().
Holders == {x \in calls : x.pc \in {"granted", "probing", "aborted"}}

Probing == {x \in calls : x.pc = "probing"}

CallsOf(cs, c) == {x \in cs : x.c = c}

Visible(c) == <<thumbnailSrc[c], loading[c], failed[c]>>

\* C1: in every reachable state the semaphore's active count is at most
\* MAX_CONCURRENT, and so is the number of probes in flight over all consumers.
C1_ActiveBounded ==
  /\ active <= MAX_CONCURRENT
  /\ Cardinality(Probing) <= MAX_CONCURRENT

\* All slots taken by probes in flight while another load() waits in the queue.
C1_Witness ==
  /\ active = MAX_CONCURRENT
  /\ Cardinality(Probing) = MAX_CONCURRENT
  /\ queue # <<>>

\* C2: whatever a superseded load() of a mounted consumer does after the target
\* change or retry() that superseded it (its AbortError catch, its continuation
\* after the slot grant, its probe result) leaves the consumer's thumbnailSrc,
\* loading and failed as the new sequence wrote them.
C2_SupersededIsSilent ==
  [][\A c \in Consumers :
       /\ status[c] = "mounted"
       /\ \/ /\ mq # <<>>
             /\ Head(mq)[1] = c
             /\ Head(mq)[2] # requestId[c]
             /\ RunMicrotask
          \/ /\ \E x \in Probing : x.c = c /\ x.rid # requestId[c]
             /\ \E o \in Outcomes(variant) : ProbeSettle(c, o)
       => Visible(c)' = Visible(c)]_vars

\* A load() invocation that starts in this step: a call that was not there before.
Started(x) == x \in calls' /\ ~HasCall(calls, Id(x))

\* A handler that restarts consumer c (watch callback or retry()) runs in this step.
Restarted(c) == requestId'[c] # requestId[c] /\ status'[c] = "mounted"

\* C3 (as claimed): once a URL is in the ready cache no probe of it is started
\* by any consumer.
C3_NoProbeOfCachedUrl ==
  [][\A x \in calls' :
       (x.pc = "probing" /\ x \notin calls) => x.src \notin readyUrls]_vars

\* C3 (amended): a load() invocation that begins when its URL is in the ready
\* cache takes no slot and issues no probe, and sets thumbnailSrc to the URL with
\* loading = false; only an invocation that passed the cache check before the
\* URL was cached (it held or awaited a slot at that moment) can still probe it.
C3_CachedUrlSkipsProbe ==
  [][/\ \A x \in calls' : Started(x) => x.src \notin readyUrls
     /\ \A x \in calls' :
          (x.pc = "probing" /\ x \notin calls /\ x.src \in readyUrls)
            => HasCall(calls, Id(x)) /\ CallOf(calls, Id(x)).pc = "granted"
     /\ \A c \in Consumers :
          (Restarted(c) /\ srcRef'[c] \in readyUrls)
            => /\ thumbnailSrc'[c] = srcRef'[c]
               /\ ~loading'[c]
               /\ ~HasCall(calls', <<c, requestId'[c]>>)
     /\ \A c \in Consumers :
          (TimerFire(c) /\ retryTimer[c].src \in readyUrls)
            => /\ thumbnailSrc'[c] = retryTimer[c].src
               /\ ~loading'[c]
               /\ CallsOf(calls', c) = {}]_vars

\* A mounted consumer shows a cached URL, set by load() from the cache: it
\* issued no probe since its last restart and has no load() pending.
C3_Witness ==
  \E c \in Consumers :
    /\ status[c] = "mounted"
    /\ srcRef[c] \in readyUrls
    /\ thumbnailSrc[c] = srcRef[c]
    /\ probesIssued[c] = 0
    /\ CallsOf(calls, c) = {}

\* The current load() of consumer c, if one is suspended at an await.
Current(c) == {x \in calls : x.c = c /\ x.rid = requestId[c]}

\* Probe outcomes that count as "failing or answering not-ready".
Failing == {"error", "neterror", "notready"}

\* C4: when the probe with attempt index MAX_RETRIES of a current sequence
\* settles as failed or not-ready, the consumer becomes failed with loading =
\* false and no timer, the sequence has issued exactly MAX_RETRIES + 1 probes,
\* and while failed the consumer has neither a timer nor a current load(), so
\* that no probe follows until the target changes or retry() is called.
C4_FailedAfterMaxRetries ==
  /\ [](\A c \in Consumers :
          /\ \A x \in Current(c) :
               x.pc = "probing" => probesIssued[c] = x.attempt + 1
          /\ failed[c] => /\ ~loading[c]
                          /\ retryTimer[c] = NoTimer
                          /\ Current(c) = {})
  /\ [][\A c \in Consumers :
          /\ \A x \in Current(c) :
               (/\ x.pc = "probing"
                /\ x.attempt = MAX_RETRIES
                /\ ~aborted[c]
                /\ \E o \in Failing : ProbeSettle(c, o))
               => /\ failed'[c]
                  /\ ~loading'[c]
                  /\ retryTimer'[c] = NoTimer
                  /\ probesIssued'[c] = MAX_RETRIES + 1
                  /\ CallsOf(calls', c) = {}
          /\ (failed[c] /\ failed'[c]) => probesIssued'[c] = probesIssued[c]]_vars

\* A consumer that gave up after MAX_RETRIES + 1 probes.
C4_Witness ==
  \E c \in Consumers :
    /\ status[c] = "mounted"
    /\ failed[c]
    /\ probesIssued[c] = MAX_RETRIES + 1

\* The post-state of retry() for a target that is not cached.
RetryReloads(c) ==
  /\ ~failed'[c]
  /\ thumbnailSrc'[c] = Null
  /\ loading'[c]
  /\ retryTimer'[c] = NoTimer
  /\ \E x \in calls' : /\ Id(x) = <<c, requestId'[c]>>
                       /\ x.src = srcRef[c]
                       /\ x.attempt = 0
                       /\ x.pc \in {"granted", "queued"}

\* C5 (as claimed): retry() on a consumer with a target, from any state, starts
\* a new sequence with attempt 0: failed = false, thumbnailSrc = null, loading =
\* true, and the sequence acquires a slot to probe the target.
C5_RetryReentersLoading ==
  [][\A c \in Consumers : Retry(c) => RetryReloads(c)]_vars

\* C5 (amended): retry() on a consumer with a target supersedes the old sequence
\* and clears failed; if the target is not in the ready cache it starts a new
\* sequence with attempt 0 (thumbnailSrc = null, loading = true, a slot is
\* requested and the probe is issued when the grant's continuation runs); if the
\* target is in the ready cache it sets thumbnailSrc to the target with loading
\* = false and issues no probe.
C5_RetryRestarts ==
  [][/\ \A c \in Consumers :
          Retry(c) =>
            /\ requestId'[c] = requestId[c] + 1
            /\ ~failed'[c]
            /\ IF srcRef[c] \in readyUrls
               THEN /\ thumbnailSrc'[c] = srcRef[c]
                    /\ ~loading'[c]
                    /\ retryTimer'[c] = NoTimer
                    /\ ~HasCall(calls', <<c, requestId'[c]>>)
               ELSE RetryReloads(c)
     /\ \A x \in calls :
          (/\ x.pc = "granted"
           /\ mq # <<>>
           /\ Head(mq) = Id(x)
           /\ x.rid = requestId[x.c]
           /\ ~aborted[x.c]
           /\ RunMicrotask)
          => [x EXCEPT !.pc = "probing"] \in calls']_vars

\* retry() was called on a failed consumer: it is loading again, its new
\* sequence probing with attempt 0.
C5_Witness ==
  \E c \in Consumers : \E x \in Current(c) :
    /\ status[c] = "mounted"
    /\ retried[c] = "failed"
    /\ x.src = srcRef[c]
    /\ x.attempt = 0
    /\ x.pc = "probing"
    /\ loading[c] /\ ~failed[c] /\ thumbnailSrc[c] = Null

\* C6: a consumer unmounted while its backoff timer is pending has the timer
\* cleared and no load() left, and from then on no probe is issued and no slot
\* acquired for it, and its thumbnailSrc, loading and failed never change.
C6_UnmountInBackoffIsFinal ==
  [][\A c \in Consumers :
       /\ (Unmount(c) /\ retryTimer[c] # NoTimer) => teardown'[c] = "backoff"
       /\ teardown'[c] = "backoff"
            => /\ retryTimer'[c] = NoTimer
               /\ CallsOf(calls', c) = {}
               /\ probesIssued'[c] = probesIssued[c]
               /\ Visible(c)' = Visible(c)
               /\ status'[c] = "unmounted"]_vars

\* A consumer was unmounted during a backoff wait; the skeleton state it had
\* then (loading, one failed probe behind it) is still there.
C6_Witness ==
  \E c \in Consumers :
    /\ teardown[c] = "backoff"
    /\ loading[c]
    /\ probesIssued[c] >= 1
    /\ retryTimer[c] = NoTimer

\* min(base * 2^k, cap), written out from the claim.
ClaimedDelay(base, cap, k) == IF base * Pow2(k) <= cap THEN base * Pow2(k) ELSE cap

C8_FifoGrants ==
  [][/\ \A x \in calls :
          (x.pc = "queued" /\ [x EXCEPT !.pc = "queued"] \notin calls')
            => /\ Id(x) = Head(queue)
               /\ queue' = Tail(queue)
               /\ [x EXCEPT !.pc = "granted"] \in calls'
     /\ \/ queue' = queue
        \/ queue # <<>> /\ queue' = Tail(queue)
        \/ \E x \in calls' : /\ Started(x)
                             /\ x.pc = "queued"
                             /\ queue' = Append(queue, Id(x))
     /\ \A x \in calls' :
          (Started(x) /\ x.pc = "granted") => queue = <<>>]_vars

\* releaseSemaphore() woke a waiter (its continuation is still to run) and a
\* later caller waits behind it.
C8_Witness ==
  \E x \in calls :
    /\ x.pc = "granted"
    /\ x.via = "queue"
    /\ mq # <<>>
    /\ queue # <<>>

\* C9: a load() waits only while all MAX_CONCURRENT slots are held; a request
\* arriving with a slot free is granted at once and one arriving with none free
\* is queued (so of more than N simultaneous requests exactly N start at once);
\* and a waiter is granted its slot only in a step in which a holder releases.
C9_WaitOnlyWhenFull ==
  /\ [](queue # <<>> => active = MAX_CONCURRENT)
  /\ [](\A x \in calls : x.pc = "queued" <=> \E i \in 1..Len(queue) : queue[i] = Id(x))
  /\ [][/\ \A x \in calls' :
             Started(x) => (x.pc = "granted" <=> active < MAX_CONCURRENT)
        /\ \A x \in calls :
             (x.pc = "queued" /\ [x EXCEPT !.pc = "granted"] \in calls')
               => \E h \in Holders : h \notin calls' /\ ~HasCall(calls', Id(h))]_vars

\* MAX_CONCURRENT probes run and a further request waits.
C9_Witness ==
  /\ Cardinality(Probing) = MAX_CONCURRENT
  /\ Cardinality({x \in calls : x.pc = "queued"}) >= 1
  /\ \A x \in calls : x.rid = requestId[x.c]

\* C10: the active count equals the number of load() invocations between their
\* grant and their releaseSemaphore(), each of which ends with one release;
\* releaseSemaphore() never runs with active = 0; active is 0 when no invocation
\* holds a slot.
C10_GrantsMatchReleases ==
  /\ [](active = Cardinality(Holders))
  /\ [](Holders = {} => active = 0)
  /\ [][/\ (\E h \in Holders : ~HasCall(calls', Id(h)))
             => active >= 1
        /\ Cardinality({h \in Holders : ~HasCall(calls', Id(h))}) <= 1
        /\ Cardinality(Holders') - Cardinality(Holders) = active' - active]_vars

\* A load() that was superseded while it waited has just been given a slot,
\* which its continuation will hand back.
C10_Witness ==
  \E x \in Holders :
    /\ x.pc = "granted"
    /\ x.via = "queue"
    /\ x.rid # requestId[x.c]
    /\ active = MAX_CONCURRENT

\* A backoff timer of consumer c is pending.
InBackoff(c) == retryTimer[c] # NoTimer

\* C11: a consumer never has more than one probe in flight, nor a probe in
\* flight together with a pending backoff timer; the probe in flight and the
\* pending timer are those of its current sequence (the probe being the one its
\* AbortController aborts), so a superseded sequence has neither once
\* cancelPending() has run; and a timer is only set while none is pending.
C11_OneProbeOrTimer ==
  /\ [](\A c \in Consumers :
          /\ Cardinality({x \in Probing : x.c = c}) <= 1
          /\ \A x \in Probing :
               x.c = c => /\ x.rid = requestId[c]
                          /\ ~aborted[c]
                          /\ controller[c] = x.rid
                          /\ ~InBackoff(c)
          /\ InBackoff(c) => /\ retryTimer[c].rid = requestId[c]
                             /\ ~aborted[c])
  /\ [][\A c \in Consumers :
          (retryTimer'[c] # retryTimer[c] /\ InBackoff(c)') => ~InBackoff(c)]_vars

\* A target change or retry() has aborted the consumer's probe (its catch is
\* still to run) and the new sequence has not issued its probe yet.
C11_Witness ==
  \E c \in Consumers : \E x, y \in CallsOf(calls, c) :
    /\ status[c] = "mounted"
    /\ x.pc = "aborted"
    /\ y.rid = requestId[c]
    /\ y.pc \in {"queued", "granted"}

\* C12: failed turns true only in the step in which a probe of the consumer's
\* current sequence settles, either failed or not ready with no retry left, or
\* (fetch variants) with a definitive error status; cancelPending() and the
\* continuations of aborted or superseded invocations never set it.
C12_FailedOnlyByCurrent ==
  [][\A c \in Consumers :
       (~failed[c] /\ failed'[c]) =>
          \E x \in Current(c) :
            /\ x.pc = "probing"
            /\ ~aborted[c]
            /\ status[c] = "mounted"
            /\ \/ /\ x.attempt = MAX_RETRIES
                  /\ \E o \in Failing : ProbeSettle(c, o)
               \/ /\ variant = "fetch"
                  /\ ProbeSettle(c, "errstatus")]_vars

\* A consumer was unmounted with its probe in flight; the aborted load() has
\* run its catch and the consumer is not failed.
C12_Witness ==
  \E c \in Consumers :
    /\ teardown[c] = "other"
    /\ probesIssued[c] >= 1
    /\ CallsOf(calls, c) = {}
    /\ ~loading[c]
    /\ thumbnailSrc[c] = Null
    /\ ~failed[c]

\* C13: during a backoff wait the consumer has no load() invocation at all, so
\* it holds no slot and waits for none; the step that sets the timer gives the
\* probe's slot back (to the oldest waiter if there is one); the sequence
\* requests a slot again only in the timer callback, which clears the timer;
\* and a probe is issued only by an invocation that has been granted a slot.
C13_NoSlotInBackoff ==
  /\ [](\A c \in Consumers : InBackoff(c) => CallsOf(calls, c) = {})
  /\ [][\A c \in Consumers :
          /\ (~InBackoff(c) /\ InBackoff(c)') =>
                IF queue = <<>>
                THEN active' = active - 1
                ELSE /\ active' = active
                     /\ queue' = Tail(queue)
                     /\ CallOf(calls', Head(queue)).pc = "granted"
          /\ (InBackoff(c) /\ \E x \in CallsOf(calls', c) : x.rid = retryTimer[c].rid) =>
                /\ TimerFire(c)
                /\ ~InBackoff(c)'
                /\ \A x \in CallsOf(calls', c) :
                     /\ x.attempt = retryTimer[c].attempt + 1
                     /\ x.pc \in {"granted", "queued"}
          /\ \A x \in CallsOf(calls', c) :
               (x.pc = "probing" /\ x \notin calls) =>
                  /\ [x EXCEPT !.pc = "granted"] \in calls
                  /\ active >= 1]_vars

\* One consumer waits out its backoff while the other consumer's probe uses the
\* slot it gave back.
C13_Witness ==
  \E c, d \in Consumers :
    /\ c # d
    /\ InBackoff(c)
    /\ active = MAX_CONCURRENT
    /\ \E x \in Probing : x.c = d

\* The probe in flight of consumer c's current, live sequence.
CurrentProbe(c) ==
  {x \in Current(c) : x.pc = "probing" /\ ~aborted[c] /\ status[c] = "mounted"}

\* C14: in the fetch variants a definitive error status answering a probe of
\* the current sequence makes the consumer failed (loading = false, no image)
\* at once, at any attempt index, and sets no timer; a timer is only ever set
\* by a 202 answer or a network error.
C14_ErrorStatusFailsAtOnce ==
  [][\A c \in Consumers :
       variant = "fetch" =>
         /\ (CurrentProbe(c) # {} /\ ProbeSettle(c, "errstatus")) =>
               /\ failed'[c]
               /\ ~loading'[c]
               /\ thumbnailSrc'[c] = Null
               /\ ~InBackoff(c)'
               /\ CallsOf(calls', c) = {}
         /\ (retryTimer'[c] # retryTimer[c] /\ InBackoff(c)') =>
               /\ CurrentProbe(c) # {}
               /\ \/ ProbeSettle(c, "notready")
                  \/ ProbeSettle(c, "neterror")]_vars

\* A fetch consumer is failed after the first probe of its sequence, with
\* retries left.
C14_Witness ==
  \E c \in Consumers :
    /\ variant = "fetch"
    /\ status[c] = "mounted"
    /\ failed[c]
    /\ probesIssued[c] = 1
    /\ MAX_RETRIES >= 1

\* C15: the ready cache only grows, and a URL enters it only in the step in
\* which a probe of exactly that URL succeeds for the current sequence of a
\* consumer whose target it is (the consumer shows it from that step on).
C15_CacheOnlyGrows ==
  [][/\ readyUrls \subseteq readyUrls'
     /\ \A u \in readyUrls' \ readyUrls :
          \E c \in Consumers :
            /\ \E x \in CurrentProbe(c) : x.src = u
            /\ srcRef[c] = u
            /\ ProbeSettle(c, "ok")
            /\ thumbnailSrc'[c] = u
            /\ ~failed'[c]]_vars

\* Both URLs are cached and a consumer whose target is cached has failed or
\* been unmounted since: the cache kept its entries.
C15_Witness ==
  /\ readyUrls = Urls
  /\ \E c \in Consumers :
       /\ srcRef[c] \in readyUrls
       /\ \/ failed[c]
          \/ status[c] = "unmounted"

\* C16 (as claimed): while a consumer's current sequence waits for a slot,
\* probes, or waits out a backoff timer, the consumer shows the skeleton:
\* loading = true, failed = false, thumbnailSrc = null.
C16_SkeletonWhileInFlight ==
  \A c \in Consumers :
    (/\ status[c] = "mounted"
     /\ ~aborted[c]
     /\ \/ \E x \in Current(c) : x.pc \in {"queued", "granted", "probing"}
        \/ InBackoff(c))
    => /\ loading[c]
       /\ ~failed[c]
       /\ thumbnailSrc[c] = Null

\* C17: once the watch callback has run, thumbnailSrc is null or the current
\* target, and a non-null thumbnailSrc is in the ready cache.
C17_ShowsOnlyCurrentTarget ==
  \A c \in Consumers :
    status[c] # "init" =>
      /\ thumbnailSrc[c] \in {Null, srcRef[c]}
      /\ thumbnailSrc[c] # Null => thumbnailSrc[c] \in readyUrls

\* A consumer recycled to a second target shows that target, the first target
\* being cached too.
C17_Witness ==
  \E c \in Consumers :
    /\ status[c] = "mounted"
    /\ requestId[c] = 2
    /\ retried[c] = "no"
    /\ thumbnailSrc[c] = srcRef[c]
    /\ thumbnailSrc[c] # Null
    /\ readyUrls = Urls

\* C18: a consumer is never both failed and loaded, and while failed it is not
\* loading, has no probe in flight and no pending timer.
C18_FailedExcludesLoaded ==
  \A c \in Consumers :
    /\ ~(thumbnailSrc[c] # Null /\ failed[c])
    /\ failed[c] => /\ ~loading[c]
                    /\ \A x \in Probing : x.c # c
                    /\ ~InBackoff(c)

\* A consumer that failed earlier has been restarted and now shows its image
\* while the other consumer is failed.
C18_Witness ==
  \E c, d \in Consumers :
    /\ c # d
    /\ retried[c] = "failed"
    /\ thumbnailSrc[c] # Null
    /\ ~failed[c]
    /\ failed[d]
    /\ thumbnailSrc[d] = Null

\* The load() invocation <<c, r>> waits in the semaphore queue.
Queued(c, r) == \E x \in calls : Id(x) = <<c, r>> /\ x.pc = "queued"

\* The load() invocation <<c, r>> has been handed a slot.
Granted(c, r) == \E x \in calls : Id(x) = <<c, r>> /\ x.pc = "granted"

\* C19: if probes settle and timers fire, every sequence of a mounted consumer
\* with a target is eventually superseded, torn down, ready or failed, and
\* every invocation waiting in the semaphore queue is eventually granted a
\* slot, also behind waiters that were cancelled while queued.
C19_SequencesTerminate ==
  /\ \A c \in Consumers : \A r \in 1..MaxRequestId :
       (status[c] = "mounted" /\ requestId[c] = r /\ srcRef[c] # Null)
         ~> \/ requestId[c] # r
            \/ status[c] = "unmounted"
            \/ thumbnailSrc[c] = srcRef[c]
            \/ failed[c]
  /\ \A c \in Consumers : \A r \in 1..MaxRequestId :
       Queued(c, r) ~> Granted(c, r)

\* A current invocation waits in the queue behind one that was superseded
\* while queued.
C19_Witness ==
  /\ Len(queue) >= 2
  /\ \E i, j \in 1..Len(queue) :
       /\ i < j
       /\ CallOf(calls, queue[i]).rid # requestId[queue[i][1]]
       /\ CallOf(calls, queue[j]).rid = requestId[queue[j][1]]
       /\ status[queue[j][1]] = "mounted"

\* query.state.data?.state is a terminal state.
ObservedTerminal == data.state \in TerminalStates

\* C20, polling part: another poll is scheduled exactly while the last observed
\* state is active (later version: or nothing has been observed yet), and once
\* a terminal state has been observed no poll is scheduled or in flight and the
\* observed job does not change any more.
C20_PollWhileActive ==
  /\ [](enabled =>
          (refetchTimer <=> \/ data.state \in ActiveStates(jobVariant)
                            \/ (jobVariant = "later" /\ data = NoData)))
  /\ [](ObservedTerminal => ~refetchTimer /\ fetchStatus = "idle")
  /\ [][ObservedTerminal => data' = data]_vars

\* C20, conclusion: a job that has reached a terminal state on the server is
\* eventually observed in that state.
C20_TerminalObserved ==
  (enabled /\ serverJob.state \in TerminalStates) ~> (data.state = serverJob.state)

\* C20 (as claimed): useJobTracking polls while the last observed state is
\* active and stops once a terminal state has been observed; hence a job that
\* reaches a terminal state on the server is eventually observed as terminal.
C20_PollsUntilTerminal == C20_PollWhileActive /\ C20_TerminalObserved

\* The conclusion of C20 for the later version alone.
C20_TerminalObservedLater ==
  (jobVariant = "later" /\ enabled /\ serverJob.state \in TerminalStates)
    ~> (data.state = serverJob.state)

\* deleteSelected() resolves in this step.
DeleteResolves == deleteCall.pc # "resolved" /\ deleteCall'.pc = "resolved"

\* C21 (as claimed): when deleteSelected() resolves the selection is empty and
\* clips holds the answer to a list request issued after the delete completed;
\* and load() sends no list request while loading is set.
C21_ReloadedAfterDelete ==
  [][/\ DeleteResolves => /\ selectedClips' = {}
                          /\ clipsEpoch' = deleteEpoch'
     /\ (clipsVariant = "ref" /\ listReq' # listReq /\ listReq'.active /\ ~listReq'.handled)
          => ~clipsLoading]_vars

\* C21 restricted to the ref version and to the part about the list.
C21_ReloadedAfterDeleteRef ==
  [][(clipsVariant = "ref" /\ DeleteResolves) => clipsEpoch' = deleteEpoch']_vars

\* C21, the part that holds: load() sends no request while loading is set, and
\* a deleteSelected() that resolved found the selection it emptied.
C21_LoadGuard ==
  [][/\ (clipsVariant = "ref" /\ listReq' # listReq /\ listReq'.active /\ ~listReq'.handled)
          => ~clipsLoading
     /\ DeleteSettle(TRUE) => selectedClips' = {}]_vars

\* C22: with nothing selected deleteSelected() throws and sends nothing; when
\* the delete request fails deleteSelected() rejects, the selection is what it
\* was and no reload is started.
C22_DeleteFailureLeavesState ==
  [][/\ (deleteSelected /\ selectedClips = {}) =>
          /\ deleteCall'.pc = "threw"
          /\ UNCHANGED <<serverClips, clips, selectedClips, clipsLoading, clipsError,
                         listReq, deleteEpoch>>
     /\ (deleteCall.pc # "deleting" /\ deleteCall'.pc = "deleting") => selectedClips # {}
     /\ (deleteCall.pc = "deleting" /\ DeleteSettle(FALSE)) =>
          /\ deleteCall'.pc = "rejected"
          /\ UNCHANGED <<serverClips, clips, selectedClips, clipsLoading, clipsError,
                         listReq, deleteEpoch>>]_vars

\* A delete request has failed: the clips are still selected and on the
\* backend, and no list request is in flight.
C22_Witness ==
  /\ deleteCall.pc = "rejected"
  /\ selectedClips = deleteCall.ids
  /\ selectedClips \subseteq serverClips
  /\ ~listReq.active

\* The loadSDCards() call completes in this step.
CardsCallCompletes == cardsCall.pc # "idle" /\ cardsCall'.pc = "idle"

\* C23: when loadSDCards() completes without error and no switchToCard ran
\* during it, currentVolumeUid is "" (and sdFiles empty) exactly when the list
\* has no connected card, else the previously selected card if still connected,
\* else the first connected card; on a failed list request currentVolumeUid is
\* "" and sdFiles is empty; loading is false in both cases.
C23_CardAfterLoad ==
  [][CardsCallCompletes =>
       /\ ~sdLoading'
       /\ (cardsCall'.result = "ok" /\ ~cardsCall'.switched) =>
            /\ (currentVolumeUid' = "") <=> (sdCards' = {})
            /\ sdCards' = {} => sdFiles' = {}
            /\ sdCards' # {} =>
                 /\ currentVolumeUid' \in sdCards'
                 /\ cardsCall'.prev \in sdCards' => currentVolumeUid' = cardsCall'.prev
                 /\ cardsCall'.prev \notin sdCards' =>
                      \A i \in 1..Len(CardOrder) :
                        CardOrder[i] = currentVolumeUid' =>
                          \A j \in 1..(i - 1) : CardOrder[j] \notin sdCards'
       /\ cardsCall'.result = "error" =>
            /\ currentVolumeUid' = ""
            /\ sdFiles' = {}]_vars

\* loadSDCards() has completed with both cards connected and card B selected
\* before: B, not the first connected card, is shown with its files.
C23_Witness ==
  /\ cardsCall.pc = "idle"
  /\ cardsCall.result = "ok"
  /\ ~cardsCall.switched
  /\ sdCards = {"A", "B"}
  /\ ~sdLoading
  /\ currentVolumeUid = "B"
  /\ cardsCall.prev = "B"
  /\ sdFiles = FilesOf("B")

\* C24 (as claimed): with no file-list request in flight sdFiles is the file
\* list of the card named by currentVolumeUid or empty, and filesLoading is
\* true while a file-list request is in flight.
C24_FilesOfCurrentCard ==
  /\ fileReqs = {} => sdFiles \in {FilesOf(currentVolumeUid), {}}
  /\ fileReqs # {} => filesLoading

\* C24, the first part alone.
C24_FilesOfCurrentCardOnly ==
  fileReqs = {} => sdFiles \in {FilesOf(currentVolumeUid), {}}

\* C24, the second part alone.
C24_FilesLoadingWhileInFlight ==
  fileReqs # {} => filesLoading

\* C25 (as claimed): every change of currentVolumeUid to another card empties
\* selectedSDFiles, and importSelected() sends only file ids of the card whose
\* volume_uid it sends.
C25_SelectionFollowsCard ==
  [][/\ (currentVolumeUid' # currentVolumeUid /\ currentVolumeUid' # "")
          => selectedSDFiles' = {}
     /\ importCall'.pc = "importing"
          => \A f \in importCall'.ids : CardOf(f) = importCall'.uid]_vars

\* C25, the first part alone.
C25_ChangeClearsSelection ==
  [][(currentVolumeUid' # currentVolumeUid /\ currentVolumeUid' # "")
        => selectedSDFiles' = {}]_vars

\* C25, what switchToCard alone guarantees.
C25_SwitchClearsSelection ==
  [][\A card \in Cards : switchToCard(card) => selectedSDFiles' = {}]_vars

\* The debounce timers pending for a key.
PendingFor(key) == {t \in pendingTimers : t.key = key}

\* C26, first part: at most one debounce timer is pending for a key.
C26_OneTimerPerKey ==
  \A key \in SettingKeys : Cardinality(PendingFor(key)) <= 1

\* C26, second part: a value handed to save() is the last value passed for
\* its key, i.e. has not been superseded before its timer fired.
C26_SupersededNeverSent ==
  [][\A key \in SettingKeys :
       sent'[key] # sent[key] => sent'[key][Len(sent'[key])] = lastValue[key]]_vars

\* C26, third part: the last value passed for a key is eventually handed to
\* save() unless a later call supersedes it.
C26_LastValueSent ==
  \A key \in SettingKeys : \A v \in 1..MaxDebounceCalls :
    (lastValue[key] = v)
      ~> \/ lastValue[key] # v
         \/ \E i \in 1..Len(sent[key]) : sent[key][i] = v

\* C26 (as claimed): at most one debounce timer is pending per key, a
\* superseded value is never sent, and the last value is eventually saved,
\* also when a call arrives while a save of the same key is in flight.
C26_DebounceCoalesces ==
  /\ []C26_OneTimerPerKey
  /\ C26_SupersededNeverSent
  /\ C26_LastValueSent

====
